---------------------------- MODULE Spec2Model ----------------------------
(***************************************************************************)
(* Model of the dragon (streak) list component and its persistence client. *)
(*                                                                         *)
(*   src/components/DragonList.tsx   the Pattern Aggregator (useMemo), the *)
(*                                   Change-Detecting Tracker (useEffect), *)
(*                                   the start / stop / clear handlers     *)
(*   src/services/dragonStatsApi.ts  debounce, save, load, clear           *)
(*                                                                         *)
(* A render commit and the passive effect it schedules are two steps: the  *)
(* commit sets pendingEffect and, while it is set, only RunTrackingEffect  *)
(* is enabled, as React flushes a pending passive effect before it handles *)
(* any other update of the component.                                      *)
(***************************************************************************)
EXTENDS Integers, Sequences, FiniteSets, TLC

VARIABLES
    allBlocks,        \* prop: the blocks, newest first
    rules,            \* prop: the list of IntervalRule
    followedPatterns, \* prop: the watched patterns
    activeFilter,     \* useState<DragonFilter>('ALL')
    isTracking,       \* useState(false)
    dragonRecords,    \* useState<DragonStatRecord[]>([])
    prevDragonsRef,   \* useRef<string>('')
    isInitializedRef, \* useRef(false)
    loadState,        \* the mount effect's load(): "pending", then what
                      \* loadDragonStats() resolved with, "data" or "null"
    pendingEffect,    \* what changed a dependency of the tracking effect in
                      \* the last commit, "none" once the effect has run
    timeout,          \* debounce's closure variable: a timer handle, or 0 for null
    timers,           \* the runtime's armed timers, each with the ms left to run
    remote,           \* what the persistence endpoint stores
    clearsInFlight,   \* DELETE requests sent and not yet resolved
    lastRequest,      \* history: the arguments of the last debounced call
    sinceRequest,     \* history: the ms passed since it, up to DebounceWait
    savesSinceRequest,\* history: the saves issued since it
    inBurst,          \* history: it came less than DebounceWait after the one
                      \* before it
    storedRecords,    \* history: the record list of the last save the
                      \* endpoint stored
    lastEval,         \* history: the last run of the tracking effect: the
                      \* observations, whether it compared the fingerprint
                      \* and, for a comparison of a non-empty set, whether
                      \* the run before it had the same set and what came
                      \* since the comparison before it
    restarted,        \* history: "stopped" once tracking was stopped,
                      \* "started" once it was started again and until a run
                      \* of the effect compares a non-empty observation set,
                      \* "no" otherwise
    clearedSince      \* history: the records were cleared since the last run
                      \* of the effect, "no", "before load" or "after load"

vars == <<allBlocks, rules, followedPatterns, activeFilter, isTracking,
          dragonRecords, prevDragonsRef, isInitializedRef, loadState,
          pendingEffect, timeout, timers, remote, clearsInFlight,
          lastRequest, sinceRequest, savesSinceRequest, inBurst,
          storedRecords, lastEval, restarted, clearedSince>>

-----------------------------------------------------------------------------
(* Bounds of the model *)

MaxBlocks == 2
MaxClearsInFlight == 1
MaxEndToEndBlocks == 5
MaxHeight == 10
MaxListed == 5
MaxStreakBlocks == 5
MaxSavedRecords == 2

(* Program constants *)

DebounceWait == 2000
DefaultThreshold == 3
DefaultRows == 6
StreakBucketLimit == 10

(* Time passes in steps of half the debounce delay. *)
TickMs == DebounceWait \div 2

\* TLC compares only values of one type: an undefined or missing numeric
\* property is a number that no property of the program takes
Undefined == 0 - 1

-----------------------------------------------------------------------------
(* JavaScript helpers *)

\* x || d on a number or a missing property: 0 and undefined are falsy
OrDefault(x, d) == IF x = Undefined \/ x = 0 THEN d ELSE x

\* a % b of JavaScript for b > 0: the result takes the sign of a
JsRem(a, b) == IF a >= 0 THEN a % b ELSE 0 - ((0 - a) % b)

RECURSIVE Join(_, _)
\* Array.prototype.join
Join(strs, sep) ==
    IF Len(strs) = 0 THEN ""
    ELSE IF Len(strs) = 1 THEN strs[1]
    ELSE strs[1] \o sep \o Join(Tail(strs), sep)

RECURSIVE InsertByHeight(_, _)
\* the place of block x in s, sorted by descending height; x came after s
InsertByHeight(x, s) ==
    IF Len(s) = 0 THEN <<x>>
    ELSE IF x.height - s[1].height > 0 THEN <<x>> \o s
    ELSE <<s[1]>> \o InsertByHeight(x, Tail(s))

RECURSIVE SortByHeightDesc(_)
\* .sort((a, b) => b.height - a.height): a stable sort
SortByHeightDesc(s) ==
    IF Len(s) = 0 THEN <<>>
    ELSE InsertByHeight(s[Len(s)], SortByHeightDesc(SubSeq(s, 1, Len(s) - 1)))

RECURSIVE InsertByCount(_, _)
\* the place of dragon x in s, sorted by descending count; x came after s
InsertByCount(x, s) ==
    IF Len(s) = 0 THEN <<x>>
    ELSE IF x.count - s[1].count > 0 THEN <<x>> \o s
    ELSE <<s[1]>> \o InsertByCount(x, Tail(s))

RECURSIVE SortByCountDesc(_)
\* .sort((a, b) => b.count - a.count): a stable sort
SortByCountDesc(s) ==
    IF Len(s) = 0 THEN <<>>
    ELSE InsertByCount(s[Len(s)], SortByCountDesc(SubSeq(s, 1, Len(s) - 1)))

-----------------------------------------------------------------------------
(* Pattern Aggregator: the useMemo of DragonList *)

\* const epoch = rule.startBlock || 0
Epoch(rule) == OrDefault(rule.startBlock, 0)

\* const rows = rule.beadRows || 6
Rows(rule) == OrDefault(rule.beadRows, DefaultRows)

\* const threshold = rule.dragonThreshold || 3
Threshold(rule) == OrDefault(rule.dragonThreshold, DefaultThreshold)

\* an alignment to the absolute height whatever the start block is
checkAlignmentAbsolute(rule, height) ==
    IF rule.value <= 1 THEN TRUE ELSE height % rule.value = 0

checkAlignment(rule, height) ==
    IF rule.value <= 1 THEN TRUE
    ELSE IF Epoch(rule) > 0
         THEN height >= Epoch(rule) /\ (height - Epoch(rule)) % rule.value = 0
         ELSE height % rule.value = 0

\* allBlocks.filter(b => checkAlignment(b.height)).sort(...)
filtered(blocks, rule) ==
    SortByHeightDesc(SelectSeq(blocks, LAMBDA b : checkAlignment(rule, b.height)))

RECURSIVE CountOf(_, _, _)
\* a loop that counts every element whose key is firstVal and does not stop
\* at the first that differs
CountOf(items, key, firstVal) ==
    IF Len(items) = 0 THEN 0
    ELSE (IF items[1][key] = firstVal THEN 1 ELSE 0)
         + CountOf(Tail(items), key, firstVal)

RECURSIVE LeadingRun(_, _, _)
\* the for loop of calculateStreak / calcRowStreak: count up to the first
\* element whose key differs from firstVal
LeadingRun(items, key, firstVal) ==
    IF Len(items) = 0 THEN 0
    ELSE IF items[1][key] = firstVal
         THEN 1 + LeadingRun(Tail(items), key, firstVal)
         ELSE 0

\* a streak calculator that counts the whole sequence
calculateStreakWhole(items, key) ==
    [value |-> items[1][key], count |-> Len(items)]

\* calculateStreak(key) over the rule's filtered blocks (non-empty)
calculateStreak(items, key) ==
    [value |-> items[1][key], count |-> LeadingRun(items, key, items[1][key])]

\* Math.floor((b.height - epoch) / interval) % rows === r; a zero interval
\* divides to an infinity or NaN, whose remainder is NaN and equals no r
InRow(rule, b, r) ==
    /\ rule.value # 0
    /\ JsRem((b.height - Epoch(rule)) \div rule.value, Rows(rule)) = r

rowItems(items, rule, r) == SelectSeq(items, LAMBDA b : InRow(rule, b, r))

\* calcRowStreak(key): the same loop over the row's blocks
calcRowStreak(items, key) ==
    [value |-> items[1][key], count |-> LeadingRun(items, key, items[1][key])]

\* the DragonInfo built by addTrendDragon / addBeadDragon (value and color,
\* display texts derived from rawType, are left out)
DragonInfo(rule, type, mode, streak, nextHeight, rowId) ==
    [ruleId |-> rule.id, ruleName |-> rule.label, type |-> type, mode |-> mode,
     rawType |-> streak.value, count |-> streak.count,
     threshold |-> Threshold(rule), nextHeight |-> nextHeight, rowId |-> rowId]

matchesFilter(filter, info) == filter = "ALL" \/ info.rawType = filter

\* followedPatterns.find(fp => fp.ruleId === rule.id && fp.type === type &&
\*   fp.mode === 'trend') and the bead variant, which also compares rowId
isFollowed(followed, info) ==
    \E fp \in followed :
        /\ fp.ruleId = info.ruleId
        /\ fp.type = info.type
        /\ fp.mode = info.mode
        /\ (info.mode = "bead" => fp.rowId = info.rowId)

\* const latestHeight = filtered[0].height; const nextHeight = latestHeight + interval
nextHeight(items, rule) == items[1].height + rule.value

\* a row prediction one sampling step ahead, as that of the sequence
rowNextHeightOneStep(row, rule) == row[1].height + rule.value

\* const rowNextHeight = rowItems[0].height + (interval * rows)
rowNextHeight(row, rule) == row[1].height + (rule.value * Rows(rule))

\* the two addTrendDragon calls of one rule, as the infos they consider
TrendInfos(blocks, rule) ==
    LET items == filtered(blocks, rule)
    IN  IF Len(items) = 0 THEN <<>>
        ELSE << DragonInfo(rule, "parity", "trend", calculateStreak(items, "type"),
                           nextHeight(items, rule), Undefined),
                DragonInfo(rule, "size", "trend", calculateStreak(items, "sizeType"),
                           nextHeight(items, rule), Undefined) >>

RECURSIVE BeadInfosFrom(_, _, _)
\* the for (let r = 0; r < rows; r++) loop of one rule, from row r on
BeadInfosFrom(items, rule, r) ==
    IF r >= Rows(rule) THEN <<>>
    ELSE LET row == rowItems(items, rule, r)
         IN  (IF Len(row) = 0 THEN <<>>
              ELSE << DragonInfo(rule, "parity", "bead", calcRowStreak(row, "type"),
                                 rowNextHeight(row, rule), r + 1),
                      DragonInfo(rule, "size", "bead", calcRowStreak(row, "sizeType"),
                                 rowNextHeight(row, rule), r + 1) >>)
             \o BeadInfosFrom(items, rule, r + 1)

BeadInfos(blocks, rule) ==
    LET items == filtered(blocks, rule)
    IN  IF Len(items) = 0 THEN <<>> ELSE BeadInfosFrom(items, rule, 0)

RECURSIVE AllTrendInfos(_, _)
\* rules.forEach: the trend infos of every rule, in rule order
AllTrendInfos(blocks, rs) ==
    IF Len(rs) = 0 THEN <<>>
    ELSE TrendInfos(blocks, rs[1]) \o AllTrendInfos(blocks, Tail(rs))

RECURSIVE AllBeadInfos(_, _)
AllBeadInfos(blocks, rs) ==
    IF Len(rs) = 0 THEN <<>>
    ELSE BeadInfos(blocks, rs[1]) \o AllBeadInfos(blocks, Tail(rs))

\* an admission on the threshold alone
AdmittedUnfiltered(filter, info) == info.count >= info.threshold

\* if (streak.count >= threshold && matchesFilter) trendResults.push(info)
Admitted(filter, info) == info.count >= info.threshold /\ matchesFilter(filter, info)

\* a watched list that also asks for the threshold
WatchedAdmitted(filter, followed, info) ==
    /\ isFollowed(followed, info)
    /\ matchesFilter(filter, info)
    /\ info.count >= info.threshold

\* if (isFollowed && matchesFilter) watchResults.push(info)
Watched(filter, followed, info) == isFollowed(followed, info) /\ matchesFilter(filter, info)

trendDragonsOf(blocks, rs, followed, filter) ==
    IF Len(blocks) = 0 THEN <<>>
    ELSE SortByCountDesc(SelectSeq(AllTrendInfos(blocks, rs),
                                   LAMBDA d : Admitted(filter, d)))

beadRowDragonsOf(blocks, rs, followed, filter) ==
    IF Len(blocks) = 0 THEN <<>>
    ELSE SortByCountDesc(SelectSeq(AllBeadInfos(blocks, rs),
                                   LAMBDA d : Admitted(filter, d)))

RECURSIVE WatchInfos(_, _)
\* watchResults is pushed to in rule order: a rule's trend infos, then its rows
WatchInfos(blocks, rs) ==
    IF Len(rs) = 0 THEN <<>>
    ELSE TrendInfos(blocks, rs[1]) \o BeadInfos(blocks, rs[1])
         \o WatchInfos(blocks, Tail(rs))

followedResultsOf(blocks, rs, followed, filter) ==
    IF Len(blocks) = 0 THEN <<>>
    ELSE SortByCountDesc(SelectSeq(WatchInfos(blocks, rs),
                                   LAMBDA d : Watched(filter, followed, d)))

\* the memoised values of the current render
trendDragons == trendDragonsOf(allBlocks, rules, followedPatterns, activeFilter)
beadRowDragons == beadRowDragonsOf(allBlocks, rules, followedPatterns, activeFilter)
followedResults == followedResultsOf(allBlocks, rules, followedPatterns, activeFilter)

-----------------------------------------------------------------------------
(* Change-Detecting Tracker: the tracking useEffect of DragonList *)

\* ${d.rowId || ''}
RowStr(rowId) == IF rowId = Undefined \/ rowId = 0 THEN "" ELSE ToString(rowId)

\* `${d.ruleId}|${d.type}|${d.mode}|${d.rowId || ''}|${d.rawType}|${d.count}`
dragonSignature(d) ==
    d.ruleId \o "|" \o d.type \o "|" \o d.mode \o "|" \o RowStr(d.rowId)
    \o "|" \o d.rawType \o "|" \o ToString(d.count)

\* a key that carries the length as the fingerprint's signature does
dragonKeyWithCount(d) == dragonSignature(d)

\* `${dragon.ruleId}|${dragon.type}|${dragon.mode}|${dragon.rowId || ''}|${dragon.rawType}`
dragonKey(d) ==
    d.ruleId \o "|" \o d.type \o "|" \o d.mode \o "|" \o RowStr(d.rowId)
    \o "|" \o d.rawType

\* `${r.ruleId}|${r.type}|${r.mode}|${r.rowId || ''}|${r.rawType}`
recordKey(r) ==
    r.ruleId \o "|" \o r.type \o "|" \o r.mode \o "|" \o RowStr(r.rowId)
    \o "|" \o r.rawType

\* The strings the signatures are built from, in ascending code unit order.
\* TLC has no order on strings: the default sort of the signature strings is
\* the lexicographic order of their fields' places in this list.
StringOrder ==
    << "", "BIG", "EVEN", "ODD", "SMALL", "bead", "parity", "r1", "r2",
       "size", "trend" >>

Rank(str) == CHOOSE i \in 1..Len(StringOrder) : StringOrder[i] = str

SortKey(d) ==
    << Rank(d.ruleId), Rank(d.type), Rank(d.mode),
       IF d.rowId = Undefined THEN 0 ELSE d.rowId, Rank(d.rawType), d.count >>

RECURSIVE LexLess(_, _)
LexLess(a, b) ==
    IF Len(a) = 0 \/ Len(b) = 0 THEN Len(a) < Len(b)
    ELSE IF a[1] # b[1] THEN a[1] < b[1]
    ELSE LexLess(Tail(a), Tail(b))

RECURSIVE InsertBySignature(_, _)
InsertBySignature(x, s) ==
    IF Len(s) = 0 THEN <<x>>
    ELSE IF LexLess(SortKey(x), SortKey(s[1])) THEN <<x>> \o s
    ELSE <<s[1]>> \o InsertBySignature(x, Tail(s))

RECURSIVE SortBySignature(_)
\* .sort() of the signature strings, carried out on the dragons they are of
SortBySignature(s) ==
    IF Len(s) = 0 THEN <<>>
    ELSE InsertBySignature(s[Len(s)], SortBySignature(SubSeq(s, 1, Len(s) - 1)))

\* allDragons.map(d => `...`).sort().join(';;')
fingerprintOf(dragons) ==
    LET sorted == SortBySignature(dragons)
    IN  Join([i \in 1..Len(sorted) |-> dragonSignature(sorted[i])], ";;")

\* the record pushed for a dragon that has none; id and timestamp, which are
\* Date.now() and Math.random() and which nothing but the rendering reads,
\* are left out
NewRecord(dragon) ==
    [ruleId |-> dragon.ruleId,
     ruleName |-> dragon.ruleName,
     type |-> dragon.type,
     mode |-> dragon.mode,
     rawType |-> dragon.rawType,
     streakLength |-> dragon.count,
     rowId |-> dragon.rowId]

\* updated.find(r => key of r === key): the place of the first match, or 0
FindRecord(updated, key) ==
    IF \E i \in 1..Len(updated) : recordKey(updated[i]) = key
    THEN CHOOSE i \in 1..Len(updated) :
            /\ recordKey(updated[i]) = key
            /\ \A j \in 1..(i - 1) : recordKey(updated[j]) # key
    ELSE 0

\* a pass that leaves a record it finds as it is
ApplyDragonKeep(updated, dragon) ==
    IF FindRecord(updated, dragonKey(dragon)) # 0 THEN updated
    ELSE Append(updated, NewRecord(dragon))

\* a pass that assigns the observed length whether or not it is greater
ApplyDragonOverwrite(updated, dragon) ==
    LET existing == FindRecord(updated, dragonKey(dragon))
    IN  IF existing # 0
        THEN [updated EXCEPT ![existing].streakLength = dragon.count]
        ELSE Append(updated, NewRecord(dragon))

\* one pass of the body of for (const dragon of allDragons)
ApplyDragon(updated, dragon) ==
    LET existing == FindRecord(updated, dragonKey(dragon))
    IN  IF existing # 0
        THEN IF dragon.count > updated[existing].streakLength
             THEN [updated EXCEPT ![existing].streakLength = dragon.count]
             ELSE updated
        ELSE Append(updated, NewRecord(dragon))

RECURSIVE ApplyDragons(_, _)
\* the loop of the setDragonRecords updater over allDragons
ApplyDragons(updated, dragons) ==
    IF Len(dragons) = 0 THEN updated
    ELSE ApplyDragons(ApplyDragon(updated, dragons[1]), Tail(dragons))


\* a guard that leaves out the initialisation flag
SkipsWhileStopped(tracking, initialized) == ~tracking

\* a guard that leaves out the tracking flag
SkipsWhileLoading(tracking, initialized) == ~initialized

\* if (!isTracking || !isInitializedRef.current) return
Skips(tracking, initialized) == ~tracking \/ ~initialized

\* a comparison with the operator inverted
fingerprintDiffers(fingerprint, prev) == fingerprint # prev

\* if (fingerprint === prevDragonsRef.current) return
fingerprintUnchanged(fingerprint, prev) == fingerprint = prev

-----------------------------------------------------------------------------
(* Statistics Aggregator: the statsData useMemo of DragonList *)

\* a bucket key that puts the length 10 with the single lengths
streakKeyAbove(rec) ==
    IF rec.streakLength > StreakBucketLimit THEN "10+" ELSE ToString(rec.streakLength)

\* rec.streakLength >= 10 ? '10+' : String(rec.streakLength)
streakKey(rec) ==
    IF rec.streakLength >= StreakBucketLimit THEN "10+" ELSE ToString(rec.streakLength)

\* {}
EmptyCounts == [k \in {} |-> 0]

\* counts[key] = (counts[key] || 0) + 1, and counts[key]++ on a key it has
Increment(counts, key) ==
    [k \in DOMAIN counts \cup {key} |->
        IF k = key
        THEN (IF key \in DOMAIN counts THEN counts[key] ELSE 0) + 1
        ELSE counts[k]]

\* { ODD: 0, EVEN: 0, BIG: 0, SMALL: 0 }
ZeroByRawType == [c \in {"ODD", "EVEN", "BIG", "SMALL"} |-> 0]

\* the entry byRule gets for a rule it has none for
NewRuleStats(rec) ==
    [ruleName |-> rec.ruleName, total |-> 0, trend |-> 0, bead |-> 0,
     byRawType |-> ZeroByRawType, byStreak |-> EmptyCounts]

\* ruleStats.total++; ruleStats[rec.mode]++; the two breakdowns of the rule
AddToRuleStats(ruleStats, rec) ==
    [ruleName |-> ruleStats.ruleName,
     total |-> ruleStats.total + 1,
     trend |-> ruleStats.trend + (IF rec.mode = "trend" THEN 1 ELSE 0),
     bead |-> ruleStats.bead + (IF rec.mode = "bead" THEN 1 ELSE 0),
     byRawType |-> Increment(ruleStats.byRawType, rec.rawType),
     byStreak |-> Increment(ruleStats.byStreak, streakKey(rec))]

\* one pass of the body of for (const rec of dragonRecords)
AddRecord(stats, rec) ==
    LET ruleStats == IF rec.ruleId \in DOMAIN stats.byRule
                     THEN stats.byRule[rec.ruleId]
                     ELSE NewRuleStats(rec)
    IN  [byRawType |-> Increment(stats.byRawType, rec.rawType),
         byMode |-> Increment(stats.byMode, rec.mode),
         byStreak |-> Increment(stats.byStreak, streakKey(rec)),
         byRule |-> [id \in DOMAIN stats.byRule \cup {rec.ruleId} |->
                        IF id = rec.ruleId THEN AddToRuleStats(ruleStats, rec)
                        ELSE stats.byRule[id]]]

RECURSIVE AddRecords(_, _)
\* the loop over dragonRecords
AddRecords(stats, records) ==
    IF Len(records) = 0 THEN stats
    ELSE AddRecords(AddRecord(stats, records[1]), Tail(records))

\* the aggregates of a record list, from the zero-filled ones
Aggregates(records) ==
    LET stats == AddRecords([byRawType |-> ZeroByRawType,
                             byMode |-> [m \in {"trend", "bead"} |-> 0],
                             byStreak |-> EmptyCounts,
                             byRule |-> EmptyCounts], records)
    IN  [byRawType |-> stats.byRawType, byMode |-> stats.byMode,
         byStreak |-> stats.byStreak, byRule |-> stats.byRule,
         total |-> Len(records)]

\* a reduction that returns the aggregates of the empty list as well
statsDataAlways(records) == << Aggregates(records) >>

\* the useMemo: null, here <<>>, for the empty list
statsDataOf(records) ==
    IF Len(records) = 0 THEN <<>> ELSE << Aggregates(records) >>

\* the memoised value of the current render
statsData == statsDataOf(dragonRecords)

-----------------------------------------------------------------------------
(* Persistence client: debounce, save, load, clear *)

\* a debounce that arms the new timer and leaves the pending one armed
KeepTimeout(armed, handle) == armed

\* if (timeout) clearTimeout(timeout): the armed timers that are left
ClearTimeout(armed, handle) == {t \in armed : t.id # handle}

\* a handle for a new timer: one that no armed timer has and that is not
\* the handle returned last, here the least such
FreshHandle(armed, last) ==
    CHOOSE h \in 1..(Cardinality(armed) + 2) :
        /\ h # last
        /\ \A t \in armed : t.id # h
        /\ \A g \in 1..(h - 1) : g = last \/ \E t \in armed : t.id = g

\* setTimeout(() => func(...args), wait): the timer it arms
SetTimeout(armed, last, args, wait) ==
    [id |-> FreshHandle(armed, last), remaining |-> wait, args |-> args]

\* debouncedSaveDragonStats(args): the function debounce(saveDragonStats, 2000)
\* returns
Debounced(args) ==
    LET kept == ClearTimeout(timers, timeout)
        timer == SetTimeout(kept, timeout, args, DebounceWait)
    IN  /\ timers' = kept \cup {timer}
        /\ timeout' = timer.id
        /\ inBurst' = (lastRequest # <<>> /\ sinceRequest < DebounceWait)
        /\ lastRequest' = <<args>>
        /\ sinceRequest' = 0
        /\ savesSinceRequest' = <<>>

\* a serialiser that leaves rowId out of every record
RecordToJsonNoRowId(r) == [f \in DOMAIN r \ {"rowId"} |-> r[f]]

\* JSON.stringify of a record: a property whose value is undefined is left out
RecordToJson(r) ==
    [f \in {g \in DOMAIN r : g # "rowId" \/ r.rowId # Undefined} |-> r[f]]

\* JSON.stringify(stats) of { records, isTracking }
ToJson(stats) ==
    [records |-> [i \in 1..Len(stats.records) |-> RecordToJson(stats.records[i])],
     isTracking |-> stats.isTracking]

\* a parsed record as the component reads it: a missing property is undefined
RecordFromJson(j) ==
    [f \in DOMAIN j \cup {"rowId"} |-> IF f \in DOMAIN j THEN j[f] ELSE Undefined]

\* the records of a parsed payload
RecordsFromJson(data) ==
    [i \in 1..Len(data.records) |-> RecordFromJson(data.records[i])]

(* The persistence endpoint, as the specification describes it: it keeps   *)
(* the last payload posted, returns it to a load and forgets it on a clear. *)

\* POST /api/dragon/stats with a body
ServerPost(store, body) == <<body>>

\* DELETE /api/dragon/stats
ServerDelete(store) == <<>>

\* GET /api/dragon/stats: { success, data }
ServerGet(store) ==
    IF store = <<>> THEN [success |-> TRUE, data |-> <<>>]
    ELSE [success |-> TRUE, data |-> store]

-----------------------------------------------------------------------------
(* Inputs of the model *)

\* a rule on every block with one bead row and a threshold of 2, and a rule
\* on every second block with two bead rows whose threshold is left to the
\* default
Rule1 ==
    [id |-> "r1", label |-> "r1", value |-> 1, startBlock |-> 0,
     beadRows |-> 1, dragonThreshold |-> 2]
Rule2 ==
    [id |-> "r2", label |-> "r2", value |-> 2, startBlock |-> 0,
     beadRows |-> 2, dragonThreshold |-> Undefined]

RuleLists == { <<Rule1>>, <<Rule1, Rule2>> }

\* the blocks that arrive: odd and big, or even and small
BlockKinds ==
    { [type |-> "ODD", sizeType |-> "BIG"], [type |-> "EVEN", sizeType |-> "SMALL"] }

\* the filter buttons that are clicked, of ALL, ODD, EVEN, BIG and SMALL
Filters == {"ALL", "ODD"}

FollowChoices ==
    { [ruleId |-> "r1", type |-> "parity", mode |-> "trend", rowId |-> Undefined] }

\* the outcomes of the DELETE request: the endpoint wiped its store, it
\* reported a failure, or the request failed in transport
ClearOutcomes == {"success", "failure", "error"}

\* the block list the component is mounted with
InitialBlocks == << [height |-> 1, type |-> "ODD", sizeType |-> "BIG"] >>

\* what an earlier session saved while it was tracking: a trend streak of 3
\* and a bead row streak of 1
EarlierRecords ==
    << [ruleId |-> "r1", ruleName |-> "r1", type |-> "parity", mode |-> "trend",
        rawType |-> "ODD", streakLength |-> 3, rowId |-> Undefined],
       [ruleId |-> "r1", ruleName |-> "r1", type |-> "size", mode |-> "bead",
        rawType |-> "BIG", streakLength |-> 1, rowId |-> 1] >>

InitialRemote ==
    ServerPost(<<>>, ToJson([records |-> EarlierRecords, isTracking |-> TRUE]))

-----------------------------------------------------------------------------
(* The component *)

\* the observations of an aggregator output: rule, dimension, mode, row,
\* class and length of each dragon
Observations(dragons) ==
    { <<dragons[i].ruleId, dragons[i].type, dragons[i].mode, dragons[i].rowId,
        dragons[i].rawType, dragons[i].count>> : i \in 1..Len(dragons) }

Init ==
    /\ allBlocks = InitialBlocks
    /\ rules \in RuleLists
    /\ followedPatterns = {}
    /\ activeFilter = "ALL"
    /\ isTracking = FALSE
    /\ dragonRecords = <<>>
    /\ prevDragonsRef = ""
    /\ isInitializedRef = FALSE
    /\ loadState = "pending"
    /\ pendingEffect = "mount"
    /\ timeout = 0
    /\ timers = {}
    /\ remote = InitialRemote
    /\ clearsInFlight = 0
    /\ lastRequest = <<>>
    /\ sinceRequest = 0
    /\ savesSinceRequest = <<>>
    /\ inBurst = FALSE
    /\ storedRecords = EarlierRecords
    /\ lastEval = <<>>
    /\ restarted = "no"
    /\ clearedSince = "no"

props == <<allBlocks, rules, followedPatterns, activeFilter>>
debounceVars ==
    <<timeout, timers, lastRequest, sinceRequest, savesSinceRequest, inBurst>>
local == <<isTracking, dragonRecords, prevDragonsRef, isInitializedRef, loadState>>
evalHistory == <<lastEval, restarted, clearedSince>>

\* const allDragons = [...trendDragons, ...beadRowDragons]
allDragons == trendDragons \o beadRowDragons

\* What came between the last comparison of a fingerprint and the next one.
Since ==
    IF restarted = "started" THEN "restart"
    ELSE IF clearedSince # "no" THEN "clear " \o clearedSince
    ELSE IF lastEval # <<>> /\ lastEval[1].compared THEN "comparison"
    ELSE "none"

\* The tracking useEffect, run after a commit that changed trendDragons,
\* beadRowDragons or isTracking.
RunTrackingEffect ==
    /\ pendingEffect # "none"
    /\ pendingEffect' = "none"
    /\ UNCHANGED <<props, isTracking, isInitializedRef, loadState, remote,
                   clearsInFlight, storedRecords>>
    /\ LET fingerprint == fingerprintOf(allDragons)
           updated == ApplyDragons(dragonRecords, allDragons)
           obs == Observations(allDragons)
           compared == ~Skips(isTracking, isInitializedRef) /\ obs # {}
       IN  /\ IF Skips(isTracking, isInitializedRef)
              THEN UNCHANGED <<dragonRecords, prevDragonsRef, debounceVars>>
              ELSE IF fingerprintUnchanged(fingerprint, prevDragonsRef)
                   THEN UNCHANGED <<dragonRecords, prevDragonsRef, debounceVars>>
                   ELSE /\ prevDragonsRef' = fingerprint
                        /\ dragonRecords' = updated
                        /\ Debounced([records |-> updated, isTracking |-> TRUE])
           /\ lastEval' =
                  << [obs |-> obs,
                      compared |-> ~Skips(isTracking, isInitializedRef),
                      sameObs |-> compared /\ lastEval # <<>> /\ lastEval[1].obs = obs,
                      since |-> IF compared THEN Since ELSE "none"] >>
           /\ restarted' = IF restarted = "started" /\ compared THEN "no" ELSE restarted
           /\ clearedSince' = "no"

\* loadDragonStats(): the payload of the response, or null when the response
\* carries none or the request failed
loadDragonStats(ok) ==
    IF ok /\ ServerGet(remote).success /\ ServerGet(remote).data # <<>>
    THEN ServerGet(remote).data
    ELSE <<>>

\* The mount effect's load() from the point loadDragonStats() resolves.
LoadResolve(ok) ==
    /\ loadState = "pending"
    /\ pendingEffect = "none"
    /\ LET saved == loadDragonStats(ok)
       IN  /\ loadState' = IF saved # <<>> THEN "data" ELSE "null"
           /\ dragonRecords' = IF saved # <<>> /\ "records" \in DOMAIN saved[1]
                               THEN RecordsFromJson(saved[1])
                               ELSE dragonRecords
           /\ isTracking' = IF saved # <<>> /\ saved[1].isTracking
                            THEN saved[1].isTracking
                            ELSE isTracking
    /\ isInitializedRef' = TRUE
    /\ pendingEffect' = IF isTracking' # isTracking THEN "tracking" ELSE "none"
    /\ UNCHANGED <<props, prevDragonsRef, debounceVars, remote, clearsInFlight,
                   storedRecords, evalHistory>>

\* the parent passes a block list with one more block
NewBlock(type, sizeType) ==
    /\ pendingEffect = "none"
    /\ Len(allBlocks) < MaxBlocks
    /\ allBlocks' = Append(allBlocks,
                           [height |-> Len(allBlocks) + 1,
                            type |-> type, sizeType |-> sizeType])
    /\ pendingEffect' = "blocks"
    /\ UNCHANGED <<rules, followedPatterns, activeFilter, local, debounceVars,
                   remote, clearsInFlight, storedRecords, evalHistory>>

\* the parent passes another rule list
SetRules(rs) ==
    /\ pendingEffect = "none"
    /\ rs # rules
    /\ rules' = rs
    /\ pendingEffect' = "rules"
    /\ UNCHANGED <<allBlocks, followedPatterns, activeFilter, local, debounceVars,
                   remote, clearsInFlight, storedRecords, evalHistory>>

\* onToggleFollow: the parent passes the watched patterns with fp toggled
ToggleFollow(fp) ==
    /\ pendingEffect = "none"
    /\ followedPatterns' = IF fp \in followedPatterns
                           THEN followedPatterns \ {fp}
                           ELSE followedPatterns \cup {fp}
    /\ pendingEffect' = "followed"
    /\ UNCHANGED <<allBlocks, rules, activeFilter, local, debounceVars,
                   remote, clearsInFlight, storedRecords, evalHistory>>

\* FilterButton: onClick={() => setActiveFilter(type)}
SetFilter(type) ==
    /\ pendingEffect = "none"
    /\ type # activeFilter
    /\ activeFilter' = type
    /\ pendingEffect' = "filter"
    /\ UNCHANGED <<allBlocks, rules, followedPatterns, local, debounceVars,
                   remote, clearsInFlight, storedRecords, evalHistory>>

\* a start that leaves the previous fingerprint as it is
handleStartTrackingKeepsFingerprint ==
    /\ pendingEffect = "none"
    /\ ~isTracking
    /\ isTracking' = TRUE
    /\ Debounced([records |-> dragonRecords, isTracking |-> TRUE])
    /\ pendingEffect' = "tracking"
    /\ restarted' = IF restarted = "no" THEN "no" ELSE "started"
    /\ UNCHANGED <<props, dragonRecords, prevDragonsRef, isInitializedRef,
                   loadState, remote, clearsInFlight, storedRecords, lastEval,
                   clearedSince>>

\* the start button is rendered while isTracking is false
handleStartTracking ==
    /\ pendingEffect = "none"
    /\ ~isTracking
    /\ isTracking' = TRUE
    /\ prevDragonsRef' = ""
    /\ Debounced([records |-> dragonRecords, isTracking |-> TRUE])
    /\ pendingEffect' = "tracking"
    /\ restarted' = IF restarted = "no" THEN "no" ELSE "started"
    /\ UNCHANGED <<props, dragonRecords, isInitializedRef, loadState, remote,
                   clearsInFlight, storedRecords, lastEval, clearedSince>>

\* the stop button is rendered while isTracking is true
handleStopTracking ==
    /\ pendingEffect = "none"
    /\ isTracking
    /\ isTracking' = FALSE
    /\ Debounced([records |-> dragonRecords, isTracking |-> FALSE])
    /\ pendingEffect' = "tracking"
    /\ restarted' = "stopped"
    /\ UNCHANGED <<props, dragonRecords, prevDragonsRef, isInitializedRef,
                   loadState, remote, clearsInFlight, storedRecords, lastEval,
                   clearedSince>>

\* a clear that leaves the previous fingerprint as it is
handleClearStatsKeepsFingerprint ==
    /\ pendingEffect = "none"
    /\ clearsInFlight < MaxClearsInFlight
    /\ dragonRecords' = <<>>
    /\ clearsInFlight' = clearsInFlight + 1
    /\ clearedSince' = IF isInitializedRef THEN "after load" ELSE "before load"
    /\ UNCHANGED <<props, isTracking, prevDragonsRef, isInitializedRef, loadState,
                   pendingEffect, debounceVars, remote, storedRecords, lastEval,
                   restarted>>

\* handleClearStats up to its await, the user having confirmed: the DELETE
\* request is on its way
handleClearStats ==
    /\ pendingEffect = "none"
    /\ clearsInFlight < MaxClearsInFlight
    /\ dragonRecords' = <<>>
    /\ prevDragonsRef' = ""
    /\ clearsInFlight' = clearsInFlight + 1
    /\ clearedSince' = IF isInitializedRef THEN "after load" ELSE "before load"
    /\ UNCHANGED <<props, isTracking, isInitializedRef, loadState, pendingEffect,
                   debounceVars, remote, storedRecords, lastEval, restarted>>

\* a handler that resets the local state once more when the endpoint has
\* confirmed the clear
ClearResolveThenReset(outcome) ==
    /\ pendingEffect = "none"
    /\ clearsInFlight > 0
    /\ clearsInFlight' = clearsInFlight - 1
    /\ remote' = IF outcome = "success" THEN ServerDelete(remote) ELSE remote
    /\ storedRecords' = IF outcome = "success" THEN <<>> ELSE storedRecords
    /\ dragonRecords' = IF outcome = "success" THEN <<>> ELSE dragonRecords
    /\ prevDragonsRef' = IF outcome = "success" THEN "" ELSE prevDragonsRef
    /\ UNCHANGED <<props, isTracking, isInitializedRef, loadState, pendingEffect,
                   debounceVars, evalHistory>>

\* clearDragonStats resolves, with true or false, and handleClearStats ends
ClearResolve(outcome) ==
    /\ pendingEffect = "none"
    /\ clearsInFlight > 0
    /\ clearsInFlight' = clearsInFlight - 1
    /\ remote' = IF outcome = "success" THEN ServerDelete(remote) ELSE remote
    /\ storedRecords' = IF outcome = "success" THEN <<>> ELSE storedRecords
    /\ UNCHANGED <<props, local, pendingEffect, debounceVars, evalHistory>>

\* Time passes while a timer runs: TickMs less is left of every armed timer.
Tick ==
    /\ pendingEffect = "none"
    /\ \E t \in timers : t.remaining > 0
    /\ timers' = { [t EXCEPT !.remaining = IF @ > TickMs THEN @ - TickMs ELSE 0] :
                   t \in timers }
    /\ sinceRequest' = IF sinceRequest + TickMs < DebounceWait
                       THEN sinceRequest + TickMs
                       ELSE DebounceWait
    /\ UNCHANGED <<props, local, pendingEffect, timeout, lastRequest,
                   savesSinceRequest, inBurst, remote, clearsInFlight,
                   storedRecords, evalHistory>>

\* a timer that may run as soon as it is armed
DueAtOnce(t) == TRUE

\* an armed timer may run once its time is up
Due(t) == t.remaining = 0

\* A due timer runs func(...args), that is saveDragonStats(stats): the POST
\* stores the payload, or fails and is logged.
TimerFire(stored) ==
    /\ pendingEffect = "none"
    /\ \E t \in timers :
        /\ Due(t)
        /\ timers' = timers \ {t}
        /\ savesSinceRequest' =
               Append(savesSinceRequest, [after |-> sinceRequest, args |-> t.args])
        /\ remote' = IF stored THEN ServerPost(remote, ToJson(t.args)) ELSE remote
        /\ storedRecords' = IF stored THEN t.args.records ELSE storedRecords
    /\ UNCHANGED <<props, local, pendingEffect, timeout, lastRequest,
                   sinceRequest, inBurst, clearsInFlight, evalHistory>>

Next ==
    \/ RunTrackingEffect
    \/ \E ok \in BOOLEAN : LoadResolve(ok)
    \/ \E k \in BlockKinds : NewBlock(k.type, k.sizeType)
    \/ \E rs \in RuleLists : SetRules(rs)
    \/ \E fp \in FollowChoices : ToggleFollow(fp)
    \/ \E f \in Filters : SetFilter(f)
    \/ handleStartTracking
    \/ handleStopTracking
    \/ handleClearStats
    \/ \E outcome \in ClearOutcomes : ClearResolve(outcome)
    \/ Tick
    \/ \E stored \in BOOLEAN : TimerFire(stored)

Spec == Init /\ [][Next]_vars

(* The component and its handlers with the saves left pending: no time     *)
(* passes and no request of the debounced save reaches the endpoint.       *)
NextTracker ==
    \/ RunTrackingEffect
    \/ \E ok \in BOOLEAN : LoadResolve(ok)
    \/ \E k \in BlockKinds : NewBlock(k.type, k.sizeType)
    \/ \E rs \in RuleLists : SetRules(rs)
    \/ \E fp \in FollowChoices : ToggleFollow(fp)
    \/ \E f \in Filters : SetFilter(f)
    \/ handleStartTracking
    \/ handleStopTracking
    \/ handleClearStats
    \/ \E outcome \in ClearOutcomes : ClearResolve(outcome)

SpecTracker == Init /\ [][NextTracker]_vars

(* The component and the persistence client under a parent that passes new *)
(* blocks and leaves rules, watched patterns and filter as they are.       *)
NextPersistence ==
    \/ RunTrackingEffect
    \/ \E ok \in BOOLEAN : LoadResolve(ok)
    \/ \E k \in BlockKinds : NewBlock(k.type, k.sizeType)
    \/ handleStartTracking
    \/ handleStopTracking
    \/ handleClearStats
    \/ \E outcome \in ClearOutcomes : ClearResolve(outcome)
    \/ Tick
    \/ \E stored \in BOOLEAN : TimerFire(stored)

SpecPersistence == Init /\ [][NextPersistence]_vars

-----------------------------------------------------------------------------
(* The component mounted with other props *)

\* the component as it is mounted with one of the block lists and rule
\* lists, the endpoint holding what an earlier session saved while it was
\* tracking
MountedWith(blockLists, ruleLists, savedLists) ==
    /\ allBlocks \in blockLists
    /\ rules \in ruleLists
    /\ followedPatterns = {}
    /\ activeFilter = "ALL"
    /\ isTracking = FALSE
    /\ dragonRecords = <<>>
    /\ prevDragonsRef = ""
    /\ isInitializedRef = FALSE
    /\ loadState = "pending"
    /\ pendingEffect = "mount"
    /\ timeout = 0
    /\ timers = {}
    /\ storedRecords \in savedLists
    /\ remote = ServerPost(<<>>, ToJson([records |-> storedRecords,
                                          isTracking |-> TRUE]))
    /\ clearsInFlight = 0
    /\ lastRequest = <<>>
    /\ sinceRequest = 0
    /\ savesSinceRequest = <<>>
    /\ inBurst = FALSE
    /\ lastEval = <<>>
    /\ restarted = "no"
    /\ clearedSince = "no"

\* a block list, oldest block first, of blocks of the kinds given, at the
\* heights 1, 2, ...
BlocksOf(kinds) ==
    [i \in 1..Len(kinds) |->
        [height |-> i, type |-> kinds[i].type, sizeType |-> kinds[i].sizeType]]

\* the rule of the end-to-end scenario: every block, one bead row, streaks
\* from 3 on
EndToEndRule ==
    [id |-> "r1", label |-> "r1", value |-> 1, startBlock |-> 0,
     beadRows |-> 1, dragonThreshold |-> 3]

\* the block lists the component is mounted with
EndToEndBlockLists ==
    { BlocksOf(kinds) :
        kinds \in UNION { [1..n -> BlockKinds] : n \in 1..MaxEndToEndBlocks } }

InitEndToEnd == MountedWith(EndToEndBlockLists, { <<EndToEndRule>> }, { EarlierRecords })

(* The component and its handlers over a fixed block list and rule, with   *)
(* the saves left pending.                                                 *)
NextEndToEnd ==
    \/ RunTrackingEffect
    \/ \E ok \in BOOLEAN : LoadResolve(ok)
    \/ handleStartTracking
    \/ handleStopTracking
    \/ handleClearStats
    \/ \E outcome \in ClearOutcomes : ClearResolve(outcome)

SpecEndToEnd == InitEndToEnd /\ [][NextEndToEnd]_vars

\* the parent passes a block list with one more block, at a height above
\* those it holds, while the list holds fewer than most blocks
ReceiveBlock(height, type, sizeType, most) ==
    /\ pendingEffect = "none"
    /\ Len(allBlocks) < most
    /\ \A k \in 1..Len(allBlocks) : allBlocks[k].height < height
    /\ allBlocks' = Append(allBlocks,
                           [height |-> height, type |-> type, sizeType |-> sizeType])
    /\ pendingEffect' = "blocks"
    /\ UNCHANGED <<rules, followedPatterns, activeFilter, local, debounceVars,
                   remote, clearsInFlight, storedRecords, evalHistory>>

\* the heights of the next block: any height for the first block, then the
\* next height or the one after it
NextHeights ==
    IF Len(allBlocks) = 0 THEN 0..MaxHeight
    ELSE { h \in { allBlocks[Len(allBlocks)].height + 1,
                   allBlocks[Len(allBlocks)].height + 2 } : h <= MaxHeight }

\* a rule that takes every interval-th block from startBlock on, with
\* beadRows bead rows and streaks from 1 on
LatticeRule(interval, startBlock, beadRows) ==
    [id |-> "r1", label |-> "r1", value |-> interval, startBlock |-> startBlock,
     beadRows |-> beadRows, dragonThreshold |-> 1]

\* the rules of the lattice: intervals 0 to 3, aligned to the absolute
\* height or to a start block, with 1, 2, 3 or the default number of rows
LatticeRules ==
    { LatticeRule(p[1], p[2], p[3]) :
        p \in { <<0, 0, 2>>, <<1, 0, 1>>, <<1, 0, 2>>, <<1, 2, 2>>, <<1, 3, 0>>,
                <<2, 0, 2>>, <<2, 2, 0>>, <<2, 3, 2>>, <<3, 0, 2>>, <<3, 2, 3>> } }

InitAggregator == MountedWith({ <<>> }, { <<r>> : r \in LatticeRules }, { EarlierRecords })

(* The aggregator under a parent that passes the blocks one by one: the     *)
(* component stays as it is mounted, each commit runs the tracking effect. *)
NextAggregator ==
    \/ RunTrackingEffect
    \/ \E h \in NextHeights, k \in BlockKinds :
          ReceiveBlock(h, k.type, k.sizeType, MaxListed)

SpecAggregator == InitAggregator /\ [][NextAggregator]_vars

\* export type BlockType, SizeType
BlockTypes == {"ODD", "EVEN"}
SizeTypes == {"BIG", "SMALL"}

\* a rule on every block with one bead row, and one with two bead rows
StreakRules == { LatticeRule(1, 0, 1), LatticeRule(1, 0, 2) }

InitStreak == MountedWith({ <<>> }, { <<r>> : r \in StreakRules }, { EarlierRecords })

(* The aggregator under a parent that passes a block of any parity and size *)
(* at each height from 1 on.                                                *)
NextStreak ==
    \/ RunTrackingEffect
    \/ \E t \in BlockTypes, s \in SizeTypes :
          ReceiveBlock(Len(allBlocks) + 1, t, s, MaxStreakBlocks)

SpecStreak == InitStreak /\ [][NextStreak]_vars

\* type DragonFilter
DragonFilters == {"ALL", "ODD", "EVEN", "BIG", "SMALL"}

\* a rule on every second block with one bead row and streaks from 1 on
AdmissionRule ==
    [id |-> "r2", label |-> "r2", value |-> 2, startBlock |-> 0,
     beadRows |-> 1, dragonThreshold |-> 1]

\* rule lists with thresholds of 1, of 2 and left to the default
AdmissionRuleLists ==
    { <<Rule1>>, <<Rule1, Rule2>>, <<LatticeRule(1, 0, 2)>>,
      <<AdmissionRule, LatticeRule(1, 0, 2)>> }

\* the patterns the cards of the component toggle: a trend pattern has no
\* rowId, a bead pattern has the rowId of its row
AdmissionFollowChoices ==
    { [ruleId |-> "r1", type |-> "parity", mode |-> "trend", rowId |-> Undefined],
      [ruleId |-> "r1", type |-> "size", mode |-> "bead", rowId |-> 1],
      [ruleId |-> "r1", type |-> "parity", mode |-> "bead", rowId |-> 2] }

InitAdmission == MountedWith({ <<>> }, AdmissionRuleLists, { EarlierRecords })

(* The aggregator under every display filter and watched-pattern set: the  *)
(* parent passes blocks of any parity and size, the user clicks the filter  *)
(* buttons and toggles patterns.                                            *)
NextAdmission ==
    \/ RunTrackingEffect
    \/ \E t \in BlockTypes, s \in SizeTypes : NewBlock(t, s)
    \/ \E fp \in AdmissionFollowChoices : ToggleFollow(fp)
    \/ \E f \in DragonFilters : SetFilter(f)

SpecAdmission == InitAdmission /\ [][NextAdmission]_vars

\* records an earlier session saved: of two rules, both modes, every class
\* and lengths on both sides of the bucket limit
SavedRecords ==
    { [ruleId |-> "r1", ruleName |-> "r1", type |-> "parity", mode |-> "trend",
       rawType |-> "ODD", streakLength |-> 3, rowId |-> Undefined],
      [ruleId |-> "r1", ruleName |-> "r1", type |-> "size", mode |-> "bead",
       rawType |-> "BIG", streakLength |-> 1, rowId |-> 1],
      [ruleId |-> "r1", ruleName |-> "r1", type |-> "parity", mode |-> "trend",
       rawType |-> "EVEN", streakLength |-> 10, rowId |-> Undefined],
      [ruleId |-> "r2", ruleName |-> "r2", type |-> "size", mode |-> "trend",
       rawType |-> "SMALL", streakLength |-> 9, rowId |-> Undefined],
      [ruleId |-> "r2", ruleName |-> "r2", type |-> "parity", mode |-> "bead",
       rawType |-> "ODD", streakLength |-> 11, rowId |-> 2],
      [ruleId |-> "r2", ruleName |-> "r2", type |-> "size", mode |-> "bead",
       rawType |-> "BIG", streakLength |-> 10, rowId |-> 1] }

\* the record lists it saved: one record per signature
SavedRecordLists ==
    { list \in UNION { [1..n -> SavedRecords] : n \in 0..MaxSavedRecords } :
        \A i, j \in 1..Len(list) : recordKey(list[i]) = recordKey(list[j]) => i = j }

InitStatistics ==
    MountedWith({ InitialBlocks }, { <<LatticeRule(1, 0, 1)>> }, SavedRecordLists)

(* The record list as the load, the tracker and the clear change it, under *)
(* fixed props and with the saves left pending.                            *)
NextStatistics ==
    \/ RunTrackingEffect
    \/ \E ok \in BOOLEAN : LoadResolve(ok)
    \/ handleClearStats
    \/ \E outcome \in ClearOutcomes : ClearResolve(outcome)

SpecStatistics == InitStatistics /\ [][NextStatistics]_vars

-----------------------------------------------------------------------------
(* Properties *)

\* the signature of a record: rule, dimension, mode, row and class
Signature(r) == <<r.ruleId, r.type, r.mode, r.rowId, r.rawType>>

\* the signature and the length of an observation
ObservedSignature(o) == <<o[1], o[2], o[3], o[4], o[5]>>
ObservedLength(o) == o[6]

\* the observations of the aggregator output of the state
Observed == Observations(allDragons)

\* a step that is a run of the tracking effect: a tracker evaluation
Evaluates == pendingEffect # "none" /\ pendingEffect' = "none"

\* a step that is a confirmed click on the clear button
Clears == clearsInFlight' > clearsInFlight

\* a step in which the request of a clear resolves
ClearResolves == clearsInFlight' < clearsInFlight

\* a step that calls the debounced save with a payload: a new timer is armed
\* for it, under a handle that is not the one held before
Dispatches(payload) ==
    /\ timeout' # timeout
    /\ lastRequest' = <<payload>>
    /\ \E t \in timers' : t.id = timeout' /\ t.args = payload

\* a step that calls the debounced save with no payload at all
DispatchesNothing == UNCHANGED debounceVars

\* C1 as stated: while tracking is enabled and initialised, an evaluation
\* whose observation set equals that of the evaluation before it, which was
\* made while tracking was enabled and initialised as well, leaves the
\* records unchanged and dispatches no save.
C1_AsStated ==
    [][ ( /\ Evaluates
          /\ isTracking /\ isInitializedRef
          /\ lastEval # <<>> /\ lastEval[1].compared
          /\ lastEval[1].obs = Observed )
        => (dragonRecords' = dragonRecords /\ DispatchesNothing) ]_vars

\* C1, amended: while tracking is enabled and initialised, an evaluation
\* whose observation set equals that of the evaluation before it, which was
\* made while tracking was enabled and initialised as well, leaves the
\* records and the previous fingerprint unchanged and dispatches no save,
\* provided the records were not cleared between the two.
C1_UnchangedUnlessCleared ==
    [][ ( /\ Evaluates
          /\ isTracking /\ isInitializedRef
          /\ lastEval # <<>> /\ lastEval[1].compared
          /\ lastEval[1].obs = Observed
          /\ clearedSince = "no" )
        => ( /\ dragonRecords' = dragonRecords
             /\ prevDragonsRef' = prevDragonsRef
             /\ DispatchesNothing ) ]_vars

\* the tracker has compared a non-empty observation set that the evaluation
\* before it had compared as well, with no clear in between
C1_Witness ==
    /\ pendingEffect = "none"
    /\ isTracking /\ isInitializedRef
    /\ lastEval # <<>>
    /\ lastEval[1].sameObs /\ lastEval[1].since = "comparison"
    /\ dragonRecords # <<>>

\* C2: on every step that is not a clear, each record stays in the list
\* under its signature and its maxStreakLength does not decrease.
C2_RecordsPersist ==
    [][ ~Clears =>
        \A i \in 1..Len(dragonRecords) :
            \E j \in 1..Len(dragonRecords') :
                /\ Signature(dragonRecords'[j]) = Signature(dragonRecords[i])
                /\ dragonRecords'[j].streakLength >= dragonRecords[i].streakLength
      ]_vars

\* the tracker has compared an observation that is shorter than the record
\* of its signature, tracking was stopped and started again, and a save has
\* been issued since
C2_Witness ==
    /\ pendingEffect = "none"
    /\ isTracking /\ isInitializedRef
    /\ restarted = "no" /\ lastEval # <<>> /\ lastEval[1].since = "restart"
    /\ prevDragonsRef = fingerprintOf(allDragons)
    /\ savesSinceRequest # <<>>
    /\ \E i \in 1..Len(dragonRecords) : \E o \in Observed :
           /\ Signature(dragonRecords[i]) = ObservedSignature(o)
           /\ dragonRecords[i].streakLength > ObservedLength(o)

\* C3: no two records of the list have the same signature.
C3_OneRecordPerSignature ==
    \A i, j \in 1..Len(dragonRecords) :
        Signature(dragonRecords[i]) = Signature(dragonRecords[j]) => i = j

\* the tracker has compared, for the second time or more, a set of
\* observations of which one has the signature of a loaded record and
\* another length, and the list holds further records
C3_Witness ==
    /\ pendingEffect = "none"
    /\ loadState = "data"
    /\ lastEval # <<>> /\ lastEval[1].sameObs
    /\ Len(dragonRecords) > Len(EarlierRecords)
    /\ \E o \in Observed :
           /\ ObservedSignature(o) = Signature(EarlierRecords[1])
           /\ ObservedLength(o) # EarlierRecords[1].streakLength

\* C4: an evaluation made before the startup load has resolved changes
\* neither the records nor the previous fingerprint.
C4_NothingBeforeLoad ==
    [][ (Evaluates /\ loadState = "pending")
        => UNCHANGED <<dragonRecords, prevDragonsRef>> ]_vars

\* tracking is enabled, the load has not resolved and the tracker has
\* evaluated a non-empty observation set
C4_Witness ==
    /\ pendingEffect = "none"
    /\ loadState = "pending"
    /\ isTracking
    /\ lastEval # <<>> /\ lastEval[1].obs # {} /\ lastEval[1].obs = Observed
    /\ Len(allBlocks) > 1
    /\ dragonRecords = <<>> /\ prevDragonsRef = ""

\* C5: a clear empties the records and resets the previous fingerprint in
\* the step that sends the request, which is then unresolved, and the step in
\* which the request resolves changes neither them nor the tracking flag,
\* whatever the outcome.
C5_ClearIsLocal ==
    [][ /\ Clears => ( /\ dragonRecords' = <<>>
                       /\ prevDragonsRef' = ""
                       /\ clearsInFlight' > 0 )
        /\ ClearResolves => UNCHANGED <<dragonRecords, prevDragonsRef, isTracking>>
      ]_vars

\* the records of a comparison were cleared, the request is unresolved, and
\* the store of the endpoint still holds records
C5_Witness ==
    /\ clearsInFlight > 0
    /\ clearedSince = "after load"
    /\ lastEval # <<>> /\ lastEval[1].compared /\ lastEval[1].obs # {}
    /\ dragonRecords = <<>> /\ prevDragonsRef = ""
    /\ remote # <<>> /\ Len(remote[1].records) > 0

\* the records hold one record for each observation, of its length, and
\* no other
RecordsAre(records, obs) ==
    /\ Len(records) = Cardinality(obs)
    /\ \A o \in obs : \E i \in 1..Len(records) :
           /\ Signature(records[i]) = ObservedSignature(o)
           /\ records[i].streakLength = ObservedLength(o)

\* C6 as stated: while tracking is enabled, the first evaluation after a
\* clear, when its non-empty observation set is the one evaluated before the
\* clear, leaves one record for each observation, of the observed length.
C6_AsStated ==
    [][ ( /\ Evaluates
          /\ isTracking
          /\ clearedSince # "no"
          /\ Observed # {}
          /\ lastEval # <<>> /\ lastEval[1].obs = Observed )
        => RecordsAre(dragonRecords', Observed) ]_vars

\* C6, amended: while tracking is enabled, the first evaluation after a
\* clear that was made once the startup load had resolved, when its non-empty
\* observation set is the one evaluated before the clear, leaves one record
\* for each observation, of the observed length, stores the fingerprint and
\* dispatches a save of these records.
C6_RecreatedAfterClear ==
    [][ ( /\ Evaluates
          /\ isTracking
          /\ clearedSince = "after load"
          /\ Observed # {}
          /\ lastEval # <<>> /\ lastEval[1].obs = Observed )
        => ( /\ RecordsAre(dragonRecords', Observed)
             /\ prevDragonsRef' = fingerprintOf(allDragons)
             /\ Dispatches([records |-> dragonRecords', isTracking |-> TRUE]) )
      ]_vars

\* after a clear the tracker has compared the observation set it had
\* evaluated before, and a record is shorter than the one of its signature
\* that the endpoint still stores
C6_Witness ==
    /\ pendingEffect = "none"
    /\ lastEval # <<>>
    /\ lastEval[1].sameObs /\ lastEval[1].since = "clear after load"
    /\ RecordsAre(dragonRecords, Observed)
    /\ \E i \in 1..Len(dragonRecords) : \E k \in 1..Len(storedRecords) :
           /\ Signature(dragonRecords[i]) = Signature(storedRecords[k])
           /\ dragonRecords[i].streakLength < storedRecords[k].streakLength

\* C7: while tracking is stopped, an evaluation that a change of the blocks,
\* the rules, the watched patterns or the filter triggered leaves the records
\* and the previous fingerprint unchanged and dispatches no save.
C7_StoppedIsInert ==
    [][ ( /\ Evaluates
          /\ ~isTracking
          /\ pendingEffect \in {"blocks", "rules", "followed", "filter"} )
        => ( /\ UNCHANGED <<dragonRecords, prevDragonsRef>>
             /\ DispatchesNothing ) ]_vars

\* tracking is stopped, the load has resolved, and the tracker has evaluated
\* an observation that has no record
C7_Witness ==
    /\ pendingEffect = "none"
    /\ ~isTracking /\ isInitializedRef
    /\ followedPatterns # {} /\ activeFilter # "ALL"
    /\ lastEval # <<>> /\ lastEval[1].obs = Observed
    /\ \E o \in Observed : \A i \in 1..Len(dragonRecords) :
           Signature(dragonRecords[i]) # ObservedSignature(o)

\* C8: once the load has resolved, the first evaluation of a non-empty
\* observation set after tracking was stopped and started again stores the
\* fingerprint of the set, leaves a record of at least the observed length
\* for each observation, and dispatches a save of the records.
C8_RestartReevaluates ==
    [][ ( /\ Evaluates
          /\ restarted = "started"
          /\ isTracking /\ isInitializedRef
          /\ Observed # {} )
        => ( /\ prevDragonsRef' = fingerprintOf(allDragons)
             /\ \A o \in Observed : \E i \in 1..Len(dragonRecords') :
                    /\ Signature(dragonRecords'[i]) = ObservedSignature(o)
                    /\ dragonRecords'[i].streakLength >= ObservedLength(o)
             /\ Dispatches([records |-> dragonRecords', isTracking |-> TRUE]) )
      ]_vars

\* after a stop and a start the tracker has compared the observation set
\* that the evaluation before it had, and which the records held already
C8_Witness ==
    /\ pendingEffect = "none"
    /\ isTracking /\ isInitializedRef
    /\ lastEval # <<>>
    /\ lastEval[1].sameObs /\ lastEval[1].since = "restart"
    /\ RecordsAre(dragonRecords, Observed)
    /\ lastRequest = << [records |-> dragonRecords, isTracking |-> TRUE] >>

\* C9: at most one save is pending; of the requests of a burst only the last
\* is written, once and with its own payload, and no sooner than the delay
\* after it: while its timer is pending nothing has been written since the
\* request, and once no timer is pending exactly one save has been issued
\* since it.
C9_Debounce ==
    /\ Cardinality(timers) <= 1
    /\ Len(savesSinceRequest) <= 1
    /\ \A i \in 1..Len(savesSinceRequest) :
           /\ savesSinceRequest[i].args = lastRequest[1]
           /\ savesSinceRequest[i].after >= DebounceWait
    /\ timers # {} => savesSinceRequest = <<>>
    /\ (lastRequest # <<>> /\ timers = {}) => Len(savesSinceRequest) = 1

\* a stop came less than the delay after the request before it, which asked
\* to save tracking as enabled, and the one save issued since is the stop's
\* and is what the endpoint stores
C9_Witness ==
    /\ inBurst
    /\ lastRequest # <<>> /\ ~lastRequest[1].isTracking
    /\ timers = {}
    /\ Len(savesSinceRequest) = 1
    /\ remote = ServerPost(remote, ToJson(lastRequest[1]))

\* C10: when the startup load resolves with a payload, the records become
\* the record list of the last save the endpoint stored: the same records,
\* with the same fields, in the same order.
C10_RoundTrip ==
    [][ (loadState = "pending" /\ loadState' = "data")
        => dragonRecords' = storedRecords ]_vars

\* the load has resolved with the stored list, in which one record has a
\* row and another has none, and nothing has changed the records since
C10_Witness ==
    /\ loadState = "data"
    /\ lastEval # <<>> /\ ~lastEval[1].compared
    /\ clearedSince = "no"
    /\ dragonRecords = storedRecords
    /\ \E i, k \in 1..Len(dragonRecords) :
           dragonRecords[i].rowId = Undefined /\ dragonRecords[k].rowId # Undefined

\* every streak the aggregator computes for the blocks and rules of the
\* state, before the threshold and the display filter are applied
ComputedStreaks ==
    LET infos == AllTrendInfos(allBlocks, rules) \o AllBeadInfos(allBlocks, rules)
    IN  { infos[i] : i \in 1..Len(infos) }

\* a record list holds a record of the streak's signature with at least its
\* length
Tracked(records, d) ==
    \E i \in 1..Len(records) :
        /\ Signature(records[i]) = <<d.ruleId, d.type, d.mode, d.rowId, d.rawType>>
        /\ records[i].streakLength >= d.count

\* C11: what the tracker records does not depend on the display filter:
\* after an evaluation made while tracking is enabled and initialised, every
\* sequence-mode or row-mode streak whose length reaches its rule's
\* threshold is tracked, whatever the filter is.
C11_FilterIndependent ==
    [][ ( /\ Evaluates
          /\ ~Skips(isTracking, isInitializedRef) )
        => \A d \in ComputedStreaks :
               d.count >= d.threshold => Tracked(dragonRecords', d) ]_vars


\* the block that has i - 1 blocks above it: the i-th newest
Newest(blocks, i) ==
    CHOOSE b \in { blocks[k] : k \in 1..Len(blocks) } :
        Cardinality({ k \in 1..Len(blocks) : blocks[k].height > b.height }) = i - 1

\* the parities of a block list, newest block first
ParityNewestFirst(blocks) == [i \in 1..Len(blocks) |-> Newest(blocks, i).type]

\* the records of a list that have a signature
RecordsOf(records, signature) ==
    { i \in 1..Len(records) : Signature(records[i]) = signature }

\* C12: end to end: with tracking enabled and initialised, no record, the
\* show-all filter and the single rule {interval 1, offset 0, 1 row,
\* threshold 3}, blocks whose parity is ODD, ODD, ODD, ODD, EVEN newest first
\* give a sequence-mode parity observation ODD of length 4, and after the
\* evaluation exactly one record has the signature (rule, parity, sequence,
\* ODD), with the maximum length 4.
C12_EndToEnd ==
    [][ ( /\ Evaluates
          /\ isTracking /\ isInitializedRef
          /\ dragonRecords = <<>>
          /\ activeFilter = "ALL"
          /\ rules = <<EndToEndRule>>
          /\ ParityNewestFirst(allBlocks) = <<"ODD", "ODD", "ODD", "ODD", "EVEN">> )
        => /\ \E i \in 1..Len(trendDragons) :
                /\ trendDragons[i].ruleId = EndToEndRule.id
                /\ trendDragons[i].type = "parity"
                /\ trendDragons[i].mode = "trend"
                /\ trendDragons[i].rawType = "ODD"
                /\ trendDragons[i].count = 4
           /\ LET found == RecordsOf(dragonRecords',
                               <<EndToEndRule.id, "parity", "trend", Undefined, "ODD">>)
              IN  /\ Cardinality(found) = 1
                  /\ \A i \in found : dragonRecords'[i].streakLength = 4 ]_vars

\* the scenario has run from an empty list: the load gave no records, an
\* evaluation has compared the fingerprint and the list holds the records it
\* created for the blocks ODD, ODD, ODD, ODD, EVEN
C12_Witness ==
    /\ loadState = "null"
    /\ isTracking /\ isInitializedRef
    /\ pendingEffect = "none"
    /\ lastEval # <<>> /\ lastEval[1].compared
    /\ ParityNewestFirst(allBlocks) = <<"ODD", "ODD", "ODD", "ODD", "EVEN">>
    /\ \E i \in 1..Len(dragonRecords) :
          /\ Signature(dragonRecords[i]) =
                 <<EndToEndRule.id, "parity", "trend", Undefined, "ODD">>
          /\ dragonRecords[i].streakLength = 4

\* the blocks of a list, as a set
BlockSet(blocks) == { blocks[k] : k \in 1..Len(blocks) }

\* the alignment predicate of a rule with its interval and start offset
Aligned(interval, startOffset, height) ==
    IF interval <= 1 THEN TRUE
    ELSE IF startOffset > 0
         THEN height >= startOffset /\ (height - startOffset) % interval = 0
         ELSE height % interval = 0

\* C13: for every block set and rule the Alignment Filter returns exactly
\* the blocks that satisfy the alignment predicate, ordered by strictly
\* descending height: every block when interval <= 1, interval 0 included;
\* with startOffset 0 and interval k >= 2 the height 3k is included and the
\* height 3k + 1 excluded.
C13_AlignmentFilter ==
    \A r \in 1..Len(rules) :
        LET rule == rules[r]
            out == filtered(allBlocks, rule)
        IN  /\ BlockSet(out) =
                   { b \in BlockSet(allBlocks) :
                       Aligned(rule.value, rule.startBlock, b.height) }
            /\ \A i \in 1..(Len(out) - 1) : out[i].height > out[i + 1].height
            /\ rule.value <= 1 => Len(out) = Len(allBlocks)
            /\ (rule.value >= 2 /\ rule.startBlock = 0) =>
                   \A b \in BlockSet(allBlocks) :
                       /\ b.height = 3 * rule.value => b \in BlockSet(out)
                       /\ b.height = 3 * rule.value + 1 => b \notin BlockSet(out)

\* a rule with interval 2 and no start offset, over blocks at the heights 6
\* and 7 among others: the filter has kept 6 and dropped 7
C13_Witness ==
    /\ pendingEffect = "none"
    /\ rules[1].value = 2 /\ rules[1].startBlock = 0
    /\ {6, 7} \subseteq { b.height : b \in BlockSet(allBlocks) }
    /\ Len(allBlocks) >= 3
    /\ 6 \in { b.height : b \in BlockSet(filtered(allBlocks, rules[1])) }
    /\ 7 \notin { b.height : b \in BlockSet(filtered(allBlocks, rules[1])) }

\* the number of leading elements of a non-empty sequence whose key is that
\* of the first element: the place before the first element that differs
LeadingLength(seq, key) ==
    LET differing == { i \in 1..Len(seq) : seq[i][key] # seq[1][key] }
    IN  IF differing = {} THEN Len(seq)
        ELSE (CHOOSE i \in differing : \A j \in differing : i <= j) - 1

\* the rows of a rule's filtered sequence that hold a block
Rowed(items, rule) ==
    { rowItems(items, rule, r) : r \in 0..(Rows(rule) - 1) } \ { <<>> }

\* C14: for every non-empty newest-first sequence and each dimension the
\* Streak Calculator returns the class of the first element and the number
\* of leading elements of that class, up to the first element of another
\* class, so 1 <= length <= sequence length and EVEN, EVEN, EVEN, ODD, EVEN
\* gives (EVEN, 3); the whole-sequence and the per-row calculator alike.
C14_StreakCalculator ==
    \A r \in 1..Len(rules) :
        LET items == filtered(allBlocks, rules[r])
        IN  Len(items) > 0 =>
              \A key \in {"type", "sizeType"} :
                /\ calculateStreak(items, key).value = items[1][key]
                /\ calculateStreak(items, key).count = LeadingLength(items, key)
                /\ calculateStreak(items, key).count \in 1..Len(items)
                /\ ( key = "type" /\ ParityNewestFirst(items) =
                                       <<"EVEN", "EVEN", "EVEN", "ODD", "EVEN">> )
                   => calculateStreak(items, key) = [value |-> "EVEN", count |-> 3]
                /\ \A row \in Rowed(items, rules[r]) :
                     /\ calcRowStreak(row, key).value = row[1][key]
                     /\ calcRowStreak(row, key).count = LeadingLength(row, key)
                     /\ calcRowStreak(row, key).count \in 1..Len(row)

\* the blocks EVEN, EVEN, EVEN, ODD, EVEN, newest first, under the rule with
\* one bead row: the sequence-mode list and the row-mode list hold the
\* parity streak EVEN of length 3
C14_Witness ==
    /\ pendingEffect = "none"
    /\ ParityNewestFirst(allBlocks) = <<"EVEN", "EVEN", "EVEN", "ODD", "EVEN">>
    /\ Rows(rules[1]) = 1
    /\ \E i \in 1..Len(trendDragons) :
          /\ trendDragons[i].type = "parity"
          /\ trendDragons[i].rawType = "EVEN" /\ trendDragons[i].count = 3
    /\ \E i \in 1..Len(beadRowDragons) :
          /\ beadRowDragons[i].type = "parity"
          /\ beadRowDragons[i].rawType = "EVEN" /\ beadRowDragons[i].count = 3

\* the number of rows of a rule: its rowCount, the default when it has none
RowCount(rule) == IF rule.beadRows = 0 THEN DefaultRows ELSE rule.beadRows

\* the blocks of a newest-first sequence whose logical index
\* floor((height - startOffset) / interval) is r modulo the number of rows
LatticeRow(items, rule, r) ==
    SelectSeq(items,
              LAMBDA b : ((b.height - rule.startBlock) \div rule.value)
                             % RowCount(rule) = r)

\* the row-mode streaks of the result list that are of row r
RowStreaks(r) ==
    { <<beadRowDragons[i].type, beadRowDragons[i].rawType, beadRowDragons[i].count>> :
        i \in { k \in 1..Len(beadRowDragons) : beadRowDragons[k].rowId = r + 1 } }

\* C15: for every rule and row r in 0..N-1, the row-mode streaks of row r
\* are computed from exactly the blocks of the rule's filtered sequence with
\* floor((height - startOffset) / interval) mod N = r, newest first, and a
\* row with no block yields no observation; with 2 rows, interval 1, no
\* offset and the heights 10, 9, 8, 7, row 0 is 10, 8 and row 1 is 9, 7.
C15_RowsOfTheLattice ==
    \A k \in 1..Len(rules) :
        LET rule == rules[k]
            items == filtered(allBlocks, rule)
        IN  rule.value >= 1 =>
              \A r \in 0..(RowCount(rule) - 1) :
                LET row == LatticeRow(items, rule, r)
                IN  /\ row = <<>> => RowStreaks(r) = {}
                    /\ row # <<>> =>
                         RowStreaks(r) =
                           { <<"parity", row[1].type, LeadingLength(row, "type")>>,
                             <<"size", row[1].sizeType, LeadingLength(row, "sizeType")>> }
                    /\ ( /\ rule.value = 1 /\ rule.startBlock = 0
                         /\ RowCount(rule) = 2
                         /\ [i \in 1..Len(items) |-> items[i].height] = <<10, 9, 8, 7>> )
                       => [i \in 1..Len(row) |-> row[i].height] =
                              (IF r = 0 THEN <<10, 8>> ELSE <<9, 7>>)

\* the greatest height of a non-empty set of blocks
NewestHeight(blocks) ==
    CHOOSE h \in { b.height : b \in blocks } : \A b \in blocks : b.height <= h

\* the blocks of the state that satisfy a rule's alignment predicate
AlignedBlocks(rule) ==
    { b \in BlockSet(allBlocks) : Aligned(rule.value, rule.startBlock, b.height) }

\* the rule of an observation
RuleOf(d) == CHOOSE rule \in { rules[k] : k \in 1..Len(rules) } : rule.id = d.ruleId

\* C16: every sequence-mode observation carries predictedNextHeight = the
\* height of the newest block of the rule's filtered sequence + interval,
\* and every row-mode observation predictedNextHeight = the height of the
\* newest block of its row + interval * rowCount.
C16_NextHeight ==
    LET sequenceMode == trendDragons
        rowMode == beadRowDragons
    IN  /\ \A i \in 1..Len(sequenceMode) :
              LET rule == RuleOf(sequenceMode[i])
              IN  sequenceMode[i].nextHeight =
                      NewestHeight(AlignedBlocks(rule)) + rule.value
        /\ \A i \in 1..Len(rowMode) :
              LET rule == RuleOf(rowMode[i])
                  row == LatticeRow(filtered(allBlocks, rule), rule, rowMode[i].rowId - 1)
              IN  rowMode[i].nextHeight =
                      NewestHeight(BlockSet(row)) + rule.value * RowCount(rule)

\* the rule of interval 2 with two rows over blocks at the heights 6 and 8:
\* the sequence is predicted at 8 + 2 and row 1, whose newest block is 6, at
\* 6 + 2 * 2
C16_Witness ==
    /\ pendingEffect = "none"
    /\ rules[1].value = 2 /\ rules[1].startBlock = 0 /\ rules[1].beadRows = 2
    /\ { b.height : b \in AlignedBlocks(rules[1]) } = {6, 8}
    /\ \E i \in 1..Len(trendDragons) : trendDragons[i].nextHeight = 10
    /\ \E i \in 1..Len(beadRowDragons) :
          beadRowDragons[i].rowId = 2 /\ beadRowDragons[i].nextHeight = 10
    /\ \E i \in 1..Len(beadRowDragons) :
          beadRowDragons[i].rowId = 1 /\ beadRowDragons[i].nextHeight = 12

\* the streak threshold of a rule: its own, the default when it has none
StreakThreshold(rule) ==
    IF rule.dragonThreshold = Undefined THEN DefaultThreshold
    ELSE rule.dragonThreshold

\* a streak passes the display filter: show-all, or the class of the streak
PassesFilter(d) == activeFilter = "ALL" \/ activeFilter = d.rawType

\* the elements of a list, as a set
Listed(list) == { list[i] : i \in 1..Len(list) }

\* a list is ordered by non-increasing streak length
NonIncreasing(list) ==
    \A i \in 1..(Len(list) - 1) : list[i].count >= list[i + 1].count

\* C17: for every rule, dimension and row, the computed streak is in the
\* sequence-mode or row-mode result list if and only if its length reaches
\* the rule's threshold and the display filter is show-all or its class;
\* each result list is ordered by non-increasing streak length.
C17_Admission ==
    LET sequenceMode == trendDragons
        rowMode == beadRowDragons
        admitted == { d \in ComputedStreaks :
                        d.count >= StreakThreshold(RuleOf(d)) /\ PassesFilter(d) }
    IN  /\ Listed(sequenceMode) = { d \in admitted : d.mode = "trend" }
        /\ Listed(rowMode) = { d \in admitted : d.mode = "bead" }
        /\ Len(sequenceMode) + Len(rowMode) = Cardinality(admitted)
        /\ NonIncreasing(sequenceMode)
        /\ NonIncreasing(rowMode)

\* under the filter ODD two rules have a parity streak ODD each, of the
\* lengths 1 and 2: the sequence-mode list holds the longer one first, and
\* the size streaks, which reach their thresholds, are left out for their
\* class
C17_Witness ==
    /\ pendingEffect = "none"
    /\ activeFilter = "ODD"
    /\ Len(rules) = 2
    /\ Len(trendDragons) = 2
    /\ trendDragons[1].count = 2 /\ trendDragons[2].count = 1
    /\ trendDragons[1].ruleId = rules[2].id
    /\ \E d \in ComputedStreaks :
          d.count >= StreakThreshold(RuleOf(d)) /\ d.rawType # "ODD"


\* the pattern of a streak: rule, dimension, detection mode and row
Pattern(d) == [ruleId |-> d.ruleId, type |-> d.type, mode |-> d.mode, rowId |-> d.rowId]

\* C18: a computed streak is in the watched result list if and only if its
\* (ruleId, dimension, detectionMode, rowIndex) is in the watched-pattern
\* set and it passes the display filter, whether or not its length reaches
\* the rule's threshold; the aggregator never changes the watched-pattern
\* set, which changes only when the parent passes another one.
C18_WatchedList ==
    /\ [] LET watched == followedResults
              expected == { d \in ComputedStreaks :
                              Pattern(d) \in followedPatterns /\ PassesFilter(d) }
          IN  /\ Listed(watched) = expected
              /\ Len(watched) = Cardinality(expected)
    /\ [][ followedPatterns' # followedPatterns
           => pendingEffect = "none" /\ pendingEffect' = "followed" ]_vars

\* under the filter ODD the watched list holds a streak shorter than its
\* rule's threshold, and a streak of a watched pattern is left out of it for
\* its class
C18_Witness ==
    /\ pendingEffect = "none"
    /\ activeFilter = "ODD"
    /\ \E d \in Listed(followedResults) : d.count < StreakThreshold(RuleOf(d))
    /\ \E d \in ComputedStreaks :
          Pattern(d) \in followedPatterns /\ d \notin Listed(followedResults)

\* C19: the Statistics Aggregator returns the no-data sentinel if and only
\* if the record list is empty; for every non-empty list it returns an
\* aggregate structure, and never a zero-filled structure for the empty
\* list.
C19_NoDataSentinel ==
    /\ Len(statsData) = 0 <=> Len(dragonRecords) = 0
    /\ Len(dragonRecords) > 0 =>
          /\ Len(statsData) = 1
          /\ statsData[1].total = Len(dragonRecords)
          /\ DOMAIN statsData[1] = {"byRawType", "byMode", "byStreak", "byRule", "total"}

\* the records that were loaded have been cleared, the request of the clear
\* is on its way: the list is empty and the aggregator returns the sentinel
C19_Witness ==
    /\ loadState = "data"
    /\ storedRecords # <<>>
    /\ clearsInFlight > 0
    /\ dragonRecords = <<>>
    /\ statsData = <<>>

\* the bucket of a record: its maximum streak length below 10, "10+" from
\* 10 on
Bucket(rec) == IF rec.streakLength < 10 THEN ToString(rec.streakLength) ELSE "10+"

\* the places of the records of a rule, or of all rules
PlacesOf(records, ruleIds) ==
    { i \in 1..Len(records) : records[i].ruleId \in ruleIds }

RECURSIVE SumOver(_, _)
\* the sum of the counts of a breakdown over some of its keys
SumOver(counts, keys) ==
    IF keys = {} THEN 0
    ELSE LET k == CHOOSE x \in keys : TRUE
         IN  counts[k] + SumOver(counts, keys \ {k})

\* the by-class and by-bucket breakdowns are the counts over the records at
\* the places given, and each sums to their number
BreakdownsCount(byRawType, byStreak, records, places) ==
    /\ DOMAIN byRawType = {"ODD", "EVEN", "BIG", "SMALL"}
    /\ \A c \in DOMAIN byRawType :
          byRawType[c] = Cardinality({ i \in places : records[i].rawType = c })
    /\ DOMAIN byStreak = { Bucket(records[i]) : i \in places }
    /\ \A k \in DOMAIN byStreak :
          byStreak[k] = Cardinality({ i \in places : Bucket(records[i]) = k })
    /\ SumOver(byRawType, DOMAIN byRawType) = Cardinality(places)
    /\ SumOver(byStreak, DOMAIN byStreak) = Cardinality(places)

\* C20: for every non-empty record list each aggregate is the count over
\* the list: by class, by mode, by bucket (the maximum length below 10,
\* "10+" otherwise) and, per ruleId, the total, the sequence and row counts
\* and the by-class and by-bucket breakdowns restricted to the rule; the
\* by-class, by-mode and by-bucket counts and the per-rule totals each sum
\* to the number of records.
C20_Aggregates ==
    Len(dragonRecords) > 0 =>
      LET stats == statsData[1]
          records == dragonRecords
          all == 1..Len(records)
          ruleIds == { records[i].ruleId : i \in all }
      IN  /\ BreakdownsCount(stats.byRawType, stats.byStreak, records, all)
          /\ DOMAIN stats.byMode = {"trend", "bead"}
          /\ \A m \in DOMAIN stats.byMode :
                stats.byMode[m] = Cardinality({ i \in all : records[i].mode = m })
          /\ stats.byMode["trend"] + stats.byMode["bead"] = Len(records)
          /\ DOMAIN stats.byRule = ruleIds
          /\ \A id \in ruleIds :
                LET ruleStats == stats.byRule[id]
                    places == PlacesOf(records, {id})
                IN  /\ ruleStats.total = Cardinality(places)
                    /\ ruleStats.trend =
                           Cardinality({ i \in places : records[i].mode = "trend" })
                    /\ ruleStats.bead =
                           Cardinality({ i \in places : records[i].mode = "bead" })
                    /\ BreakdownsCount(ruleStats.byRawType, ruleStats.byStreak,
                                       records, places)
          /\ SumOver([id \in ruleIds |-> stats.byRule[id].total], ruleIds) = Len(records)

\* a list of records of two rules with lengths on both sides of the bucket
\* limit, the length 10 among them, and the aggregates of it: the bucket
\* "10+" counts the records of length 10 and more
C20_Witness ==
    /\ Len(dragonRecords) >= 2
    /\ \E i \in 1..Len(dragonRecords) : dragonRecords[i].streakLength = 10
    /\ \E i \in 1..Len(dragonRecords) : dragonRecords[i].streakLength < 10
    /\ Cardinality(DOMAIN statsData[1].byRule) = 2
    /\ "10+" \in DOMAIN statsData[1].byStreak
    /\ statsData[1].byStreak["10+"] =
           Cardinality({ i \in 1..Len(dragonRecords) : dragonRecords[i].streakLength >= 10 })

\* the identity key of an observation of the result lists
ObservedKey(d) == <<d.ruleId, d.type, d.mode, d.rowId, d.rawType>>

\* the maximum a record list holds for an identity key, 0 when it has no
\* record of it
MaximumOf(records, key) ==
    IF RecordsOf(records, key) = {} THEN 0
    ELSE records[CHOOSE i \in RecordsOf(records, key) : TRUE].streakLength

\* C21: after every tracker evaluation made while tracking is enabled and
\* initialised, whether it ran the update or was skipped by the fingerprint
\* comparison, every observation of the current sequence-mode and row-mode
\* lists has a record of its identity key whose maximum is at least the
\* observed length, and is max(previous maximum, observed length) when the
\* update ran; the records whose key matches no current observation are
\* unchanged.
C21_AfterEvaluation ==
    [][ ( /\ Evaluates
          /\ isTracking /\ isInitializedRef )
        => LET dragons == allDragons
               keys == { ObservedKey(dragons[k]) : k \in 1..Len(dragons) }
               ran == prevDragonsRef' # prevDragonsRef
           IN  /\ \A k \in 1..Len(dragons) :
                     LET key == ObservedKey(dragons[k])
                         before == MaximumOf(dragonRecords, key)
                         after == MaximumOf(dragonRecords', key)
                     IN  /\ RecordsOf(dragonRecords', key) # {}
                         /\ after >= dragons[k].count
                         /\ ran => /\ Cardinality(RecordsOf(dragonRecords', key)) = 1
                                   /\ after = IF before > dragons[k].count
                                              THEN before
                                              ELSE dragons[k].count
               /\ \A i \in 1..Len(dragonRecords) :
                     Signature(dragonRecords[i]) \notin keys
                     => /\ i <= Len(dragonRecords')
                        /\ dragonRecords'[i] = dragonRecords[i] ]_vars

\* an evaluation has been skipped by the fingerprint comparison: it had the
\* observations of the comparison before it, with nothing in between, and a
\* record holds a maximum above the length observed
C21_Witness ==
    /\ isTracking /\ isInitializedRef
    /\ pendingEffect = "none"
    /\ lastEval # <<>>
    /\ lastEval[1].compared /\ lastEval[1].sameObs
    /\ lastEval[1].since = "comparison"
    /\ \E d \in Listed(allDragons) :
          MaximumOf(dragonRecords, ObservedKey(d)) > d.count
    /\ \E i \in 1..Len(dragonRecords) :
          \A d \in Listed(allDragons) : Signature(dragonRecords[i]) # ObservedKey(d)

RECURSIVE RowSizesFrom(_, _, _)
\* the sum of the sizes of the rows r, r + 1, ... of a rule's filtered
\* sequence
RowSizesFrom(items, rule, r) ==
    IF r >= rule.beadRows THEN 0
    ELSE Len(rowItems(items, rule, r)) + RowSizesFrom(items, rule, r + 1)

\* C22: for every rule the data model allows (interval >= 1, startOffset >=
\* 0, rowCount N >= 1) and every block set, the rows partition the rule's
\* filtered sequence: every block that passes the Alignment Filter is in
\* exactly one of the N rows, and the row sizes sum to the length of the
\* filtered sequence.
C22_RowsPartition ==
    \A k \in 1..Len(rules) :
        LET rule == rules[k]
            items == filtered(allBlocks, rule)
        IN  (rule.value >= 1 /\ rule.startBlock >= 0 /\ rule.beadRows >= 1) =>
              /\ \A b \in BlockSet(items) :
                    Cardinality({ r \in 0..(rule.beadRows - 1) :
                                    b \in BlockSet(rowItems(items, rule, r)) }) = 1
              /\ RowSizesFrom(items, rule, 0) = Len(items)

\* a step in which a due timer runs saveDragonStats: a POST request is sent
\* to the endpoint
Posts == Len(savesSinceRequest') = Len(savesSinceRequest) + 1

\* the payload of the request that step sends
Posted == savesSinceRequest'[Len(savesSinceRequest')].args

\* C23: no save request is dispatched to the persistence endpoint before
\* the startup load attempt has resolved, under any interleaving of start,
\* stop and tracker evaluations with the pending load, so that a record
\* list that does not yet include the saved records is never written over
\* them.
C23_NoSaveBeforeLoad ==
    [][ Posts => loadState # "pending" ]_vars

\* C24: a debounced save that is pending when clear is invoked is never
\* written after the remote clear: once clear has completed, the endpoint
\* never again receives a record that existed before the clear.  With a
\* clear invoked since the last run of the tracking effect, no call of the
\* debounced save is younger than that clear, so a record in a payload
\* sent then existed before it; the endpoint holding nothing and no clear
\* in flight, the remote clear has completed; the step is one in which the
\* endpoint stores what it receives.
C24_NoStaleSaveAfterClear ==
    [][ ( /\ Posts
          /\ remote' # remote
          /\ clearedSince # "no"
          /\ clearsInFlight = 0
          /\ remote = <<>> )
        => Posted.records = <<>> ]_vars
=============================================================================
